---------------------------- MODULE Spec2Model ----------------------------
(***************************************************************************)
(* A model of JavadocToMarkdown (src/JavadocToMarkdown.py): the extractor  *)
(* _get_sections and the renderer _from_doc / _from_section /              *)
(* process_tags / _from_tag_group.                                         *)
(*                                                                         *)
(* Text is a sequence of lexical tokens.  Every maximal run of letters is  *)
(* one token (a word, e.g. "param", "Param", "import"); the comment        *)
(* delimiters "/**" and "*/" and the HTML markers "<code>", "</code>",     *)
(* "<p>", "</p>" are one token each; every other character is a token of   *)
(* its own (" ", "\n", "*", "@", "{", ";", "#", ":", ...).  The        *)
(* regular expressions of the source are translated to scans over these    *)
(* tokens.                                                                 *)
(***************************************************************************)
EXTENDS Integers, Sequences, FiniteSets, TLC

VARIABLES code, headings_level, pc, pos, sections, primary_sections,
          out, sec_idx, frag, tags, tag_idx, assoc_buffer, result

\* code, headings_level : the arguments of from_javadoc (lines 97, 30)
\* pc                   : where the run is: "primary" and "fallback" (the two
\*                        loops of _get_sections), "extracted" (line 42 has
\*                        its sections), "section" (the loop of line 48),
\*                        "tags" (the loop of line 145), "done" (line 51)
\* pos                  : where finditer searches next (lines 225, 260)
\* sections             : sections of _get_sections (line 221)
\* primary_sections     : the value of sections when line 257 tests it
\* out                  : out of _from_doc (line 44), one text per element
\* sec_idx              : the section the loop of line 48 is at
\* frag, tags, assoc_buffer : out, tags and assoc_buffer of the running call
\*                        of _from_section (lines 126, 139, 142)
\* tag_idx              : the tag the loop of line 145 is at
\* result               : the text from_javadoc returns (line 51)
vars == <<code, headings_level, pc, pos, sections, primary_sections,
          out, sec_idx, frag, tags, tag_idx, assoc_buffer, result>>

-----------------------------------------------------------------------------
(* Character classes *)

\* \s of the regular expressions and of str.strip()
WS == {" ", "\n"}

\* (?:\t| ) : horizontal white space only
HSpace == {" "}

\* [a-zA-Z]+ : the word tokens of the model
LowerWords == {"abstract", "access", "author", "copyright", "exports", "license",
               "link", "package", "since", "static", "subpackage",
               "constructor", "deprecated", "private", "exception", "throws",
               "param", "return", "returns", "see", "this", "todo", "version",
               "import", "int", "x", "d", "foo"}

MixedWords == {"Param", "PARAM", "Deprecated", "Throws", "None"}

Words == LowerWords \cup MixedWords

-----------------------------------------------------------------------------
(* Sequence helpers *)

Min(a, b) == IF a < b THEN a ELSE b

Drop(s, n) == SubSeq(s, n + 1, Len(s))

Take(s, n) == SubSeq(s, 1, n)

\* smallest index i >= from with s[i] \in set, or Len(s) + 1
FirstIn(s, from, set) ==
  LET hits == {i \in from..Len(s) : s[i] \in set}
  IN  IF hits = {} THEN Len(s) + 1 ELSE CHOOSE i \in hits : \A j \in hits : i <= j

\* smallest index i >= from with s[i] \notin set, or Len(s) + 1
FirstNotIn(s, from, set) ==
  LET hits == {i \in from..Len(s) : s[i] \notin set}
  IN  IF hits = {} THEN Len(s) + 1 ELSE CHOOSE i \in hits : \A j \in hits : i <= j

\* largest index i with s[i] \notin set, or 0
LastNotIn(s, set) ==
  LET hits == {i \in 1..Len(s) : s[i] \notin set}
  IN  IF hits = {} THEN 0 ELSE CHOOSE i \in hits : \A j \in hits : j <= i

\* str.strip()
Strip(s) == SubSeq(s, FirstNotIn(s, 1, WS), LastNotIn(s, WS))

RECURSIVE Flatten(_)
Flatten(ss) == IF ss = <<>> THEN <<>> ELSE Head(ss) \o Flatten(Tail(ss))

RECURSIVE Repeat(_, _)
Repeat(t, n) == IF n <= 0 THEN <<>> ELSE <<t>> \o Repeat(t, n - 1)

StartsWith(s, p) == Len(s) >= Len(p) /\ SubSeq(s, 1, Len(p)) = p

-----------------------------------------------------------------------------
(* Extractor: _get_sections *)

\* tokens for the two characters that cannot be written in a string here
Backtick == "BACKTICK"
EmDash == "EMDASH"

Opener == "/**"
Closer == "*/"
Terminators == {"{", ";"}

\* /\*\*(.*?)\*/ : the first opener at or after `from` that has a closer
\* after it (0 if none); the lazy body ends at the first closer.
CommentOpen(text, from) ==
  LET o == FirstIn(text, from, {Opener})
  IN  IF o <= Len(text) /\ FirstIn(text, o + 1, {Closer}) <= Len(text) THEN o ELSE 0

CommentClose(text, o) == FirstIn(text, o + 1, {Closer})

\* pattern = r'/\*\*(.*?)\*/\s*([^{;]*(?:[{;]|$))' searched from `from`:
\* group 1, group 2 and the end of the match (the next search position).
PrimaryMatch(text, from) ==
  LET o == CommentOpen(text, from)
      c == CommentClose(text, o)
      k == FirstNotIn(text, c + 1, WS)
      e == FirstIn(text, k, Terminators)
  IN  [found |-> o # 0,
       g1    |-> IF o = 0 THEN <<>> ELSE SubSeq(text, o + 1, c - 1),
       g2    |-> IF o = 0 THEN <<>> ELSE SubSeq(text, k, Min(e, Len(text))),
       end   |-> Min(e, Len(text)) + 1]

\* code_section.startswith('import')
StartsWithImport(s) == s # <<>> /\ s[1] = "import"

\* lines 241-242: synthesize the "* " prefix
NormalizeDoc(doc_comment) ==
  IF Strip(doc_comment) # <<>> /\ Strip(doc_comment)[1] = "*"
  THEN doc_comment
  ELSE <<"*", " ">> \o Strip(doc_comment)

\* line 233: if not doc_comment or not code_section: continue
HalfEmpty(doc_comment, code_section) == doc_comment = <<>> \/ code_section = <<>>

\* lines 230-247: the body of the primary loop for one match
PrimaryAppend(secs, m) ==
  IF HalfEmpty(m.g1, m.g2) THEN secs
  ELSE IF StartsWithImport(Strip(m.g2)) THEN secs
  ELSE Append(secs, [line |-> Strip(m.g2), doc |-> NormalizeDoc(m.g1)])

\* fallback_pattern = r'/\*\*(.*?)\*/' searched from `from`
FallbackMatch(text, from) ==
  LET o == CommentOpen(text, from)
      c == CommentClose(text, o)
  IN  [found |-> o # 0,
       g1    |-> IF o = 0 THEN <<>> ELSE SubSeq(text, o + 1, c - 1),
       end   |-> c + 1]

\* lines 267-275: the first line of text (split at "\n") that is not blank,
\* stripped; <<>> when every line is blank
RECURSIVE FirstNonBlankLine(_)
FirstNonBlankLine(text) ==
  LET nl == FirstIn(text, 1, {"\n"})
      ln == Strip(SubSeq(text, 1, nl - 1))
  IN  IF ln # <<>> THEN ln
      ELSE IF nl > Len(text) THEN <<>>
      ELSE FirstNonBlankLine(Drop(text, nl))

\* lines 264-275: the body of the fallback loop for one match
FallbackAppend(secs, text, m) ==
  LET ln == FirstNonBlankLine(Drop(text, m.end - 1))
  IN  IF m.g1 = <<>> \/ ln = <<>> THEN secs
      ELSE Append(secs, [line |-> ln, doc |-> m.g1])

\* the fallback scan run after every primary scan
NeedsFallbackAlways(secs) == TRUE

\* line 257: if not sections
NeedsFallback(secs) == secs = <<>>

-----------------------------------------------------------------------------
(* Renderer: text cleaning *)

\* re.sub(r'\s+', ' ', line): every run of white space becomes one space
RECURSIVE CollapseWS(_)
CollapseWS(s) ==
  IF s = <<>> THEN <<>>
  ELSE IF s[1] \in WS THEN <<" ">> \o CollapseWS(Drop(s, FirstNotIn(s, 1, WS) - 1))
  ELSE <<s[1]>> \o CollapseWS(Tail(s))

\* _clean_line: strip, then collapse white space
CleanLine(s) == CollapseWS(Strip(s))

\* _clean_single_line: _clean_line, then [\n\r\t] -> ' '
CleanSingleLine(s) ==
  LET c == CleanLine(s)
  IN  [i \in 1..Len(c) |-> IF c[i] = "\n" THEN " " ELSE c[i]]

\* re.sub(r'[{;]\s*$', '', line): a terminator followed only by white space
\* up to the end of the text is removed together with that white space
StripTerminator(s) ==
  LET l == LastNotIn(s, WS)
  IN  IF l > 0 /\ s[l] \in Terminators THEN Take(s, l - 1) ELSE s

\* _get_field_declaration
GetFieldDeclaration(line) == CleanSingleLine(StripTerminator(line))

-----------------------------------------------------------------------------
(* Renderer: splitting the comment into description and tag blocks *)

\* ^(?:\t| )*?\*(?:\t| )*?(?=@) with re.M, tried at position p: the index of
\* the "@" the match stops in front of, or 0 when there is no match at p
TagPrefixAt(doc, p) ==
  LET star == FirstNotIn(doc, p, HSpace)
      at   == FirstNotIn(doc, star + 1, HSpace)
  IN  IF /\ (p = 1 \/ doc[p - 1] = "\n")
         /\ star <= Len(doc) /\ doc[star] = "*"
         /\ at <= Len(doc) /\ doc[at] = "@"
      THEN at ELSE 0

\* re.split(...): the texts between the matches; `from` is where the current
\* part began and p the position the search has reached
RECURSIVE SplitFrom(_, _, _)
SplitFrom(doc, from, p) ==
  IF p > Len(doc) THEN <<SubSeq(doc, from, Len(doc))>>
  ELSE IF TagPrefixAt(doc, p) # 0
       THEN <<SubSeq(doc, from, p - 1)>>
              \o SplitFrom(doc, TagPrefixAt(doc, p), TagPrefixAt(doc, p))
       ELSE SplitFrom(doc, from, p + 1)

\* line 130
SplitDoc(doc) == SplitFrom(doc, 1, 1)

\* text.split('\n')
RECURSIVE SplitLines(_)
SplitLines(text) ==
  LET nl == FirstIn(text, 1, {"\n"})
  IN  IF nl > Len(text) THEN <<text>>
      ELSE <<SubSeq(text, 1, nl - 1)>> \o SplitLines(Drop(text, nl))

\* lines 169-171, on one line of the description:
\*   ^\s*\*\s*  then  ^\s*/\*+\s*  then  \s*\*+/\s*$
DescLine(line) ==
  LET a0 == FirstNotIn(line, 1, WS)
      l1 == IF a0 <= Len(line) /\ line[a0] = "*"
            THEN Drop(line, FirstNotIn(line, a0 + 1, WS) - 1) ELSE line
      b0 == FirstNotIn(l1, 1, WS)
      l2 == IF b0 <= Len(l1) /\ l1[b0] = Opener
            THEN Drop(l1, FirstNotIn(l1, FirstNotIn(l1, b0 + 1, {"*"}), WS) - 1)
            ELSE l1
      c0 == LastNotIn(l2, WS)
      l3 == IF c0 > 0 /\ l2[c0] = Closer
            THEN LET stars == LastNotIn(Take(l2, c0 - 1), {"*"})
                 IN  Take(l2, LastNotIn(Take(l2, stars), WS))
            ELSE l2
  IN  Strip(l3)

RECURSIVE JoinWithSpace(_)
JoinWithSpace(ls) ==
  IF ls = <<>> THEN <<>>
  ELSE IF Len(ls) = 1 THEN ls[1]
  ELSE ls[1] \o <<" ">> \o JoinWithSpace(Tail(ls))

\* _replace_html_with_markdown: <code>(.*?)</code> -> `\1`
RECURSIVE ReplaceHtmlWithMarkdown(_)
ReplaceHtmlWithMarkdown(s) ==
  LET o == FirstIn(s, 1, {"<code>"})
      c == FirstIn(s, o + 1, {"</code>"})
  IN  IF o > Len(s) \/ c > Len(s) THEN s
      ELSE Take(s, o - 1) \o <<Backtick>> \o SubSeq(s, o + 1, c - 1) \o <<Backtick>>
             \o ReplaceHtmlWithMarkdown(Drop(s, c))

\* .replace('<p>', '\n\n').replace('</p>', '\n\n')
RECURSIVE ReplaceParagraphs(_)
ReplaceParagraphs(s) ==
  IF s = <<>> THEN <<>>
  ELSE (IF s[1] \in {"<p>", "</p>"} THEN <<"\n", "\n">> ELSE <<s[1]>>)
         \o ReplaceParagraphs(Tail(s))

\* _get_doc_description
GetDocDescription(doc_lines) ==
  LET ls    == SplitLines(doc_lines)
      clean == SelectSeq([i \in 1..Len(ls) |-> DescLine(ls[i])], LAMBDA l : l # <<>>)
  IN  ReplaceParagraphs(ReplaceHtmlWithMarkdown(CleanLine(JoinWithSpace(clean))))

-----------------------------------------------------------------------------
(* Renderer: tag extraction *)

\* [\r\n]{1,2}(?:\t| )*?\*(?:\t| )* tried at position p: the index after
\* the match, or 0 when there is no match at p.  Two newlines are tried
\* before one.
WrapAt(v, p) ==
  LET try(n) ==
        LET star == FirstNotIn(v, p + n, HSpace)
        IN  IF /\ p + n - 1 <= Len(v)
               /\ \A i \in p..(p + n - 1) : v[i] = "\n"
               /\ star <= Len(v) /\ v[star] = "*"
            THEN FirstNotIn(v, star + 1, HSpace) ELSE 0
  IN  IF try(2) # 0 THEN try(2) ELSE try(1)

\* line 333: every line-wrap artifact becomes '\n\n     '
RECURSIVE UnwrapValue(_)
UnwrapValue(v) ==
  IF v = <<>> THEN <<>>
  ELSE IF WrapAt(v, 1) # 0
       THEN <<"\n", "\n", " ", " ", " ", " ", " ">> \o UnwrapValue(Drop(v, WrapAt(v, 1) - 1))
       ELSE <<v[1]>> \o UnwrapValue(Tail(v))

\* ^(?:\t| )*?@([a-zA-Z]+)([\s\S]*) matched at the start of a tag block
TagMatches(block) ==
  LET at == FirstNotIn(block, 1, HSpace)
  IN  /\ at < Len(block) + 1 /\ block[at] = "@"
      /\ at + 1 <= Len(block) /\ block[at + 1] \in Words

\* lines 331-337: the tag of one block
TagOf(block) ==
  LET at == FirstNotIn(block, 1, HSpace)
  IN  [key   |-> CleanSingleLine(<<block[at + 1]>>)[1],
       value |-> UnwrapValue(Strip(Drop(block, at + 1)))]

\* _get_doc_tags
RECURSIVE GetDocTags(_)
GetDocTags(doc_lines) ==
  IF doc_lines = <<>> THEN <<>>
  ELSE (IF TagMatches(Head(doc_lines)) THEN <<TagOf(Head(doc_lines))>> ELSE <<>>)
         \o GetDocTags(Tail(doc_lines))

-----------------------------------------------------------------------------
(* Renderer: tag classification, process_tags *)

\* _tokenize splitting at one white space character instead of a run
TokenizeOneSpace(text) ==
  LET t  == Strip(text)
      w  == FirstIn(t, 1, WS)
  IN  IF text = <<>> THEN << <<>>, <<>> >>
      ELSE IF w > Len(t) THEN <<t, <<>> >>
      ELSE <<Take(t, w - 1), Drop(t, w)>>

\* _tokenize(text, r'\s+', 2)
Tokenize(text) ==
  LET t  == Strip(text)
      w  == FirstIn(t, 1, WS)
  IN  IF text = <<>> THEN << <<>>, <<>> >>
      ELSE IF w > Len(t) THEN <<t, <<>> >>
      ELSE <<Take(t, w - 1), Drop(t, FirstNotIn(t, w, WS) - 1)>>

\* str.title() of a word: the first letter in upper case, the rest in lower
\* case (the words of the model that it changes are listed)
Title(key) ==
  CASE key = "abstract"    -> "Abstract"
    [] key = "access"      -> "Access"
    [] key = "author"      -> "Author"
    [] key = "copyright"   -> "Copyright"
    [] key = "exports"     -> "Exports"
    [] key = "license"     -> "License"
    [] key = "link"        -> "Link"
    [] key = "package"     -> "Package"
    [] key = "since"       -> "Since"
    [] key = "static"      -> "Static"
    [] key = "subpackage"  -> "Subpackage"
    [] key = "constructor" -> "Constructor"
    [] key = "deprecated"  -> "Deprecated"
    [] key = "private"     -> "Private"
    [] key = "Deprecated"  -> "Deprecated"
    [] key = "Param"       -> "Param"
    [] key = "PARAM"       -> "Param"
    [] key = "Throws"      -> "Throws"
    [] OTHER               -> key

\* an entry of the buffer: a text, or None
TextEntry(v) == [none |-> FALSE, text |-> v]
NoneEntry == [none |-> TRUE, text |-> <<>>]

\* the buffer is a dict, which keeps its keys in insertion order: a
\* sequence of [name, entries]
BufferIndex(buffer, name) ==
  IF \E i \in 1..Len(buffer) : buffer[i].name = name
  THEN CHOOSE i \in 1..Len(buffer) : buffer[i].name = name
  ELSE 0

\* add_to_buffer with a new group put in front of the others
AddToBufferFront(buffer, name, entry) ==
  LET i == BufferIndex(buffer, name)
  IN  IF i = 0 THEN <<[name |-> name, entries |-> <<entry>>]>> \o buffer
      ELSE [buffer EXCEPT ![i].entries = Append(@, entry)]

\* add_to_buffer
AddToBuffer(buffer, name, entry) ==
  LET i == BufferIndex(buffer, name)
  IN  IF i = 0 THEN Append(buffer, [name |-> name, entries |-> <<entry>>])
      ELSE [buffer EXCEPT ![i].entries = Append(@, entry)]

\* f'`{tokens[0]}` - {tokens[1]}' (with an em dash)
TypedEntry(value) ==
  TextEntry(<<Backtick>> \o Tokenize(value)[1] \o <<Backtick, " ", EmDash, " ">>
              \o Tokenize(value)[2])

\* a word in lower case
Lower(word) ==
  CASE word = "Param"      -> "param"
    [] word = "PARAM"      -> "param"
    [] word = "Deprecated" -> "deprecated"
    [] word = "Throws"     -> "throws"
    [] word = "None"       -> "none"
    [] OTHER               -> word

\* the comparison of the key with the literals, ignoring letter case
KeyIsIgnoringCase(key, literals) == Lower(key) \in literals

\* the comparison of the key with the literals of lines 76-94
KeyIs(key, literals) == key \in literals

\* process_tags
ProcessTags(tag, buffer) ==
  LET key == tag.key
      value == tag.value
  IN  IF KeyIs(key, {"abstract", "access", "author", "copyright", "exports", "license",
                     "link", "package", "since", "static", "subpackage"})
        THEN AddToBuffer(buffer, <<Title(key)>>, TextEntry(value))
      ELSE IF KeyIs(key, {"constructor", "deprecated", "private"})
        THEN AddToBuffer(buffer, <<Title(key)>>, NoneEntry)
      ELSE IF KeyIs(key, {"exception", "throws"})
        THEN AddToBuffer(buffer, <<"Exceptions">>, TypedEntry(value))
      ELSE IF KeyIs(key, {"param"})
        THEN AddToBuffer(buffer, <<"Parameters">>, TypedEntry(value))
      ELSE IF KeyIs(key, {"return", "returns"})
        THEN AddToBuffer(buffer, <<"Returns">>, TextEntry(value))
      ELSE IF KeyIs(key, {"see"})
        THEN AddToBuffer(buffer, <<"See", " ", "also">>, TextEntry(value))
      ELSE IF KeyIs(key, {"this"})
        THEN AddToBuffer(buffer, <<"This">>, TextEntry(<<Backtick>> \o value \o <<Backtick>>))
      ELSE IF KeyIs(key, {"todo"})
        THEN AddToBuffer(buffer, <<"To", "-", "do">>, TextEntry(value))
      ELSE IF KeyIs(key, {"version"})
        THEN AddToBuffer(buffer, <<"Version">>, TextEntry(value))
      ELSE buffer

-----------------------------------------------------------------------------
(* Renderer: Markdown assembly *)

\* str(entry) inside an f-string: None prints as the word None
EntryText(entry) == IF entry.none THEN <<"None">> ELSE entry.text

RECURSIVE SubList(_)
SubList(entries) ==
  IF entries = <<>> THEN <<>>
  ELSE <<"\n", " ", " ", " ", "*", " ">> \o EntryText(Head(entries)) \o SubList(Tail(entries))

\* _from_tag_group
FromTagGroup(name, entries) ==
  IF Len(entries) = 1 /\ entries[1].none
  THEN <<"\n", " ", "*", " ", "*", "*">> \o name \o <<"*", "*">>
  ELSE <<"\n", " ", "*", " ", "*", "*">> \o name \o <<":", "*", "*">>
         \o (IF Len(entries) > 1 THEN SubList(entries)
             ELSE IF Len(entries) = 1 THEN <<" ">> \o EntryText(entries[1])
             ELSE <<>>)

\* lines 150-151: the groups of the buffer, in the order of the dict
RECURSIVE FromBuffer(_)
FromBuffer(buffer) ==
  IF buffer = <<>> THEN <<>>
  ELSE FromTagGroup(Head(buffer).name, Head(buffer).entries) \o FromBuffer(Tail(buffer))

\* the sub-heading at the base level itself
SubHeadingAtBaseLevel(field, level) ==
  <<"\n", "\n">> \o Repeat("#", level) \o <<" ", Backtick>> \o field \o <<Backtick>>

\* lines 126-128: the sub-heading
SubHeading(field, level) ==
  <<"\n", "\n">> \o Repeat("#", level + 1) \o <<" ", Backtick>> \o field \o <<Backtick>>

\* lines 130-137: sub-heading and description of a section whose field is
\* not empty
SectionHead(section, level) ==
  LET description == GetDocDescription(SplitDoc(section.doc)[1])
  IN  SubHeading(GetFieldDeclaration(section.line), level)
        \o (IF description # <<>> THEN <<"\n", "\n">> \o description ELSE <<>>)

\* line 139: the tags of a section
SectionTags(section) == GetDocTags(Tail(SplitDoc(section.doc)))

\* lines 145-146: the loop over the tags
RECURSIVE ProcessAll(_, _)
ProcessAll(tgs, buffer) ==
  IF tgs = <<>> THEN buffer ELSE ProcessAll(Tail(tgs), ProcessTags(Head(tgs), buffer))

\* line 140: if tags
HasTags(tgs) == tgs # <<>>

\* _from_section as a function of the section
FromSection(section, level) ==
  IF GetFieldDeclaration(section.line) = <<>> THEN <<>>
  ELSE SectionHead(section, level)
         \o (IF HasTags(SectionTags(section))
             THEN <<"\n">> \o FromBuffer(ProcessAll(SectionTags(section), <<>>))
             ELSE <<>>)

\* line 45: the top-level heading
DocHeading(level) == Repeat("#", level) \o <<" ", "Documentation">>

-----------------------------------------------------------------------------
(* Inputs *)

\* the longest tag sequence of a generated comment
MaxTags == 3

\* the longest token sequence given to the extractor alone
MaxCodeLen == 4

\* headings_level: the base level, 1-6
HeadingLevels == 1..6

\* the level JavaDocsProcessor._process_file passes
DefaultLevel == 1

RECURSIVE SeqsUpTo(_, _)
SeqsUpTo(S, n) ==
  IF n = 0 THEN {<<>>}
  ELSE LET shorter == SeqsUpTo(S, n - 1)
       IN  shorter \cup {Append(q, e) : q \in {r \in shorter : Len(r) = n - 1}, e \in S}

\* one tag line of a comment: "\n * @key rest"
TagLine(key, rest) == <<"\n", " ", "*", " ", "@", key>> \o rest

TypeAndText == <<" ", "x", " ", "d">>
WrappedTypeAndText == <<" ", "x", "\n", " ", "*", " ", "d", " ", "d">>

\* the tag lines of the longer comments, in two families: the typed tags,
\* and the verbatim and marker tags
TypedTagLines ==
  { TagLine("param", TypeAndText),
    TagLine("Param", TypeAndText),
    TagLine("throws", TypeAndText),
    TagLine("exception", WrappedTypeAndText),
    TagLine("foo", <<" ", "d">>) }

PlainTagLines ==
  { TagLine("return", <<" ", "d">>),
    TagLine("returns", <<" ", "x">>),
    TagLine("deprecated", <<>>),
    TagLine("deprecated", <<" ", "d">>),
    TagLine("author", <<" ", "d">>),
    TagLine("param", TypeAndText) }

CoreTagLines == TypedTagLines \cup PlainTagLines

OtherTagLines ==
  { TagLine(k, <<" ", "x">>) :
      k \in {"abstract", "access", "copyright", "exports", "license", "link", "package",
             "since", "static", "subpackage", "constructor", "private", "see", "this",
             "todo", "version", "PARAM", "Deprecated", "Throws"} }
    \cup { TagLine("param", <<>>), TagLine("param", <<" ", "x">>), TagLine("author", <<" ", "None">>),
           <<"\n", " ", "*", " ", "@", ";", "x">> }

Descriptions ==
  { <<>>,
    <<" ", "d">>,
    <<"\n", " ", "*", " ", "d", " ", "<code>", "x", "</code>", "\n", " ", "*", " ", "<p>", "d">> }

Declarations ==
  { <<"int", " ", "x", ";">>,
    <<"int", "\n", " ", "x", " ", "{">>,
    <<";">>,
    <<"import", " ", "x", ";">> }

Comment(desc, taglines) == <<Opener>> \o desc \o Flatten(taglines) \o <<"\n", " ", Closer>>

Unit(desc, taglines, decl) == Comment(desc, taglines) \o <<"\n">> \o decl

\* comments written on one line
InlineUnits ==
  { <<Opener, " ", "@", "deprecated", " ", Closer, "\n", "int", " ", "x", ";">>,
    <<Opener, " ", "d", " ", Closer, " ", "int", " ", "x", ";">>,
    <<Opener, " ", Closer, "\n", "int", " ", "x", ";">> }

\* the units that follow another unit
TrailingUnits ==
  { Unit(<<" ", "d">>, <<TagLine("param", TypeAndText)>>, <<"int", " ", "x", ";">>),
    Unit(<<>>, <<TagLine("foo", <<" ", "d">>)>>, <<"int", " ", "d", " ", "{">>),
    Unit(<<" ", "d">>, <<>>, <<";">>),
    Unit(<<" ", "d">>, <<>>, <<"import", " ", "x", ";">>) }

RichUnits ==
  { Unit(<<>>, ts, <<"int", " ", "x", ";">>) :
      ts \in SeqsUpTo(TypedTagLines, MaxTags) \cup SeqsUpTo(PlainTagLines, MaxTags) }

PlainUnits ==
  { Unit(desc, ts, decl) :
      desc \in Descriptions, ts \in SeqsUpTo(CoreTagLines \cup OtherTagLines, 1),
      decl \in Declarations }

SmallUnits ==
  { Unit(desc, ts, decl) :
      desc \in Descriptions,
      ts \in { <<>>, <<TagLine("param", TypeAndText)>>, <<TagLine("foo", <<" ", "d">>)>> },
      decl \in Declarations }

\* the source texts given to from_javadoc
DocumentCodes ==
  RichUnits \cup PlainUnits \cup InlineUnits
    \cup { u \o <<"\n">> \o v : u \in SmallUnits \cup InlineUnits, v \in TrailingUnits }

\* the levels a source text is rendered at
LevelsFor(text) ==
  IF text \in RichUnits \cup PlainUnits THEN {DefaultLevel} ELSE HeadingLevels

ExtractTokens == {Opener, Closer, " ", "\n", "*", ";", "import", "int"}

\* the source texts given to _get_sections alone: every short token
\* sequence, and every short sequence of comments and declarations
ExtractPieces ==
  { <<Opener, "*", Closer>>, <<Opener, " ", Closer>>, <<Opener, Closer>>,
    <<Opener, "int", Closer>>,
    <<"int", ";">>, <<"int", "{">>, <<"import", ";">>, <<"int">>, <<"\n">> }

\* the token sequence is the lexing of a text: no "*" or "/**" runs into a
\* following "/" and no two words are adjacent
WellLexed(text) ==
  \A i \in 1..(Len(text) - 1) :
    /\ ~(text[i] \in {"*", Opener} /\ text[i + 1] = Opener)
    /\ ~(text[i] \in Words /\ text[i + 1] \in Words)

ExtractCodesUpTo(n) ==
  { text \in SeqsUpTo(ExtractTokens, n) \cup { Flatten(ps) : ps \in SeqsUpTo(ExtractPieces, n) } :
      WellLexed(text) }

-----------------------------------------------------------------------------
(* State machine *)

\* from_javadoc(code, headings_level) has been called
Init ==
  /\ code \in DocumentCodes
  /\ headings_level \in LevelsFor(code)
  /\ pc = "primary"
  /\ pos = 1
  /\ sections = <<>>
  /\ primary_sections = <<>>
  /\ out = <<>>
  /\ sec_idx = 0
  /\ frag = <<>>
  /\ tags = <<>>
  /\ tag_idx = 0
  /\ assoc_buffer = <<>>
  /\ result = <<>>

\* _get_sections(code) has been called on its own
InitExtract ==
  /\ code \in ExtractCodesUpTo(MaxCodeLen)
  /\ headings_level = 1
  /\ pc = "primary"
  /\ pos = 1
  /\ sections = <<>>
  /\ primary_sections = <<>>
  /\ out = <<>>
  /\ sec_idx = 0
  /\ frag = <<>>
  /\ tags = <<>>
  /\ tag_idx = 0
  /\ assoc_buffer = <<>>
  /\ result = <<>>

renderVars == <<out, sec_idx, frag, tags, tag_idx, assoc_buffer, result>>

\* lines 228-252: one iteration of the primary loop
PrimaryStep ==
  /\ pc = "primary"
  /\ PrimaryMatch(code, pos).found
  /\ sections' = PrimaryAppend(sections, PrimaryMatch(code, pos))
  /\ pos' = PrimaryMatch(code, pos).end
  /\ UNCHANGED <<code, headings_level, pc, primary_sections, renderVars>>

\* line 257: the primary loop is over
PrimaryEnd ==
  /\ pc = "primary"
  /\ ~PrimaryMatch(code, pos).found
  /\ primary_sections' = sections
  /\ pc' = IF NeedsFallback(sections) THEN "fallback" ELSE "extracted"
  /\ pos' = 1
  /\ UNCHANGED <<code, headings_level, sections, renderVars>>

\* lines 263-275: one iteration of the fallback loop
FallbackStep ==
  /\ pc = "fallback"
  /\ FallbackMatch(code, pos).found
  /\ sections' = FallbackAppend(sections, code, FallbackMatch(code, pos))
  /\ pos' = FallbackMatch(code, pos).end
  /\ UNCHANGED <<code, headings_level, pc, primary_sections, renderVars>>

\* line 279: return sections
FallbackEnd ==
  /\ pc = "fallback"
  /\ ~FallbackMatch(code, pos).found
  /\ pc' = "extracted"
  /\ UNCHANGED <<code, headings_level, pos, sections, primary_sections, renderVars>>

\* lines 44-45
StartDoc ==
  /\ pc = "extracted"
  /\ out' = <<DocHeading(headings_level)>>
  /\ sec_idx' = 1
  /\ pc' = "section"
  /\ UNCHANGED <<code, headings_level, pos, sections, primary_sections,
                 frag, tags, tag_idx, assoc_buffer, result>>

\* _from_section with one buffer shared by all the sections: the buffer of
\* the section before is not replaced by an empty one
BeginSectionSharedBuffer ==
  /\ pc = "section"
  /\ sec_idx <= Len(sections)
  /\ LET section == sections[sec_idx]
         tgs == SectionTags(section)
     IN  IF GetFieldDeclaration(section.line) = <<>>
         THEN /\ out' = Append(out, <<>>)
              /\ sec_idx' = sec_idx + 1
              /\ frag' = <<>>
              /\ tags' = <<>>
              /\ UNCHANGED pc
         ELSE IF ~HasTags(tgs)
         THEN /\ frag' = SectionHead(section, headings_level)
              /\ out' = Append(out, frag')
              /\ sec_idx' = sec_idx + 1
              /\ tags' = tgs
              /\ UNCHANGED pc
         ELSE /\ frag' = SectionHead(section, headings_level) \o <<"\n">>
              /\ tags' = tgs
              /\ pc' = "tags"
              /\ UNCHANGED <<out, sec_idx>>
  /\ tag_idx' = 1
  /\ UNCHANGED assoc_buffer
  /\ UNCHANGED <<code, headings_level, pos, sections, primary_sections, result>>

\* lines 122-142: _from_section is called on the next section and runs up
\* to the loop over the tags; it returns at line 124 (empty field) or at
\* line 153 (no tags).  frag, tags and assoc_buffer are the locals out, tags
\* and assoc_buffer of this call.
BeginSection ==
  /\ pc = "section"
  /\ sec_idx <= Len(sections)
  /\ LET section == sections[sec_idx]
         tgs == SectionTags(section)
     IN  IF GetFieldDeclaration(section.line) = <<>>
         THEN /\ out' = Append(out, <<>>)
              /\ sec_idx' = sec_idx + 1
              /\ frag' = <<>>
              /\ tags' = <<>>
              /\ UNCHANGED pc
         ELSE IF ~HasTags(tgs)
         THEN /\ frag' = SectionHead(section, headings_level)
              /\ out' = Append(out, frag')
              /\ sec_idx' = sec_idx + 1
              /\ tags' = tgs
              /\ UNCHANGED pc
         ELSE /\ frag' = SectionHead(section, headings_level) \o <<"\n">>
              /\ tags' = tgs
              /\ pc' = "tags"
              /\ UNCHANGED <<out, sec_idx>>
  /\ tag_idx' = 1
  /\ assoc_buffer' = <<>>
  /\ UNCHANGED <<code, headings_level, pos, sections, primary_sections, result>>

\* lines 145-146: process_tags on the next tag
ProcessTag ==
  /\ pc = "tags"
  /\ tag_idx <= Len(tags)
  /\ assoc_buffer' = ProcessTags(tags[tag_idx], assoc_buffer)
  /\ tag_idx' = tag_idx + 1
  /\ UNCHANGED <<code, headings_level, pc, pos, sections, primary_sections,
                 out, sec_idx, frag, tags, result>>

\* lines 150-153: the groups are rendered and _from_section returns
EmitGroups ==
  /\ pc = "tags"
  /\ tag_idx > Len(tags)
  /\ frag' = frag \o FromBuffer(assoc_buffer)
  /\ out' = Append(out, frag')
  /\ sec_idx' = sec_idx + 1
  /\ pc' = "section"
  /\ UNCHANGED <<code, headings_level, pos, sections, primary_sections,
                 tags, tag_idx, assoc_buffer, result>>

\* line 51
FinishDoc ==
  /\ pc = "section"
  /\ sec_idx > Len(sections)
  /\ result' = Flatten(out) \o <<"\n">>
  /\ pc' = "done"
  /\ UNCHANGED <<code, headings_level, pos, sections, primary_sections,
                 out, sec_idx, frag, tags, tag_idx, assoc_buffer>>

NextExtract == PrimaryStep \/ PrimaryEnd \/ FallbackStep \/ FallbackEnd

Next ==
  \/ PrimaryStep \/ PrimaryEnd \/ FallbackStep \/ FallbackEnd
  \/ StartDoc \/ BeginSection \/ ProcessTag \/ EmitGroups \/ FinishDoc

\* from_javadoc
Spec == Init /\ [][Next]_vars

\* _get_sections
SpecExtract == InitExtract /\ [][NextExtract]_vars

-----------------------------------------------------------------------------
(* Vocabulary of the properties *)

\* the literals of the policy table
PolicyKeys ==
  {"abstract", "access", "author", "copyright", "exports", "license", "link", "package",
   "since", "static", "subpackage", "constructor", "deprecated", "private", "exception",
   "throws", "param", "return", "returns", "see", "this", "todo", "version"}

MarkerKeys == {"constructor", "deprecated", "private"}

\* the tags process_tags has been applied to in the current section
Processed == SubSeq(tags, 1, tag_idx - 1)

\* the group and the entry a single tag yields in an empty buffer
Alone(tag) == ProcessTags(tag, <<>>)
Recognized(tag) == Alone(tag) # <<>>
GroupOf(tag) == Alone(tag)[1].name
EntryOf(tag) == Alone(tag)[1].entries[1]

\* the indices of the tags of tgs that go to group g, and the first of them
IndicesOf(tgs, g) == {k \in 1..Len(tgs) : Recognized(tgs[k]) /\ GroupOf(tgs[k]) = g}
FirstIndexOf(tgs, g) == CHOOSE k \in IndicesOf(tgs, g) : \A j \in IndicesOf(tgs, g) : k <= j

\* the entries of the tags of tgs that go to group g, in the order of the tags
RECURSIVE EntriesOf(_, _)
EntriesOf(tgs, g) ==
  IF tgs = <<>> THEN <<>>
  ELSE (IF Recognized(Head(tgs)) /\ GroupOf(Head(tgs)) = g THEN <<EntryOf(Head(tgs))>> ELSE <<>>)
         \o EntriesOf(Tail(tgs), g)

\* buffer holds exactly the groups of tgs, in the order of their first tags,
\* each with the entries of its tags in the order of the tags
InFirstOccurrenceOrder(buffer, tgs) ==
  /\ \A i, j \in 1..Len(buffer) : i # j => buffer[i].name # buffer[j].name
  /\ {buffer[i].name : i \in 1..Len(buffer)}
       = {GroupOf(tgs[k]) : k \in {n \in 1..Len(tgs) : Recognized(tgs[n])}}
  /\ \A i, j \in 1..Len(buffer) :
       i < j => FirstIndexOf(tgs, buffer[i].name) < FirstIndexOf(tgs, buffer[j].name)
  /\ \A i \in 1..Len(buffer) : buffer[i].entries = EntriesOf(tgs, buffer[i].name)

\* the groups of a buffer, each rendered by _from_tag_group, one after another
GroupsText(buffer) ==
  Flatten([i \in 1..Len(buffer) |-> FromTagGroup(buffer[i].name, buffer[i].entries)])

\* _from_section has just returned the fragment of a section with tags
SectionEmitted == pc = "section" /\ sec_idx > 1 /\ tags # <<>>

\* C1: the buffer holds the groups in the order in which each group name was
\* first added, with the entries of each group in the order of their tags
\* (also for keys that share a group), after every tag and when the
\* groups are emitted; the fragment ends with the groups in that order.
C1_OrderPreserved ==
  /\ pc = "tags" => InFirstOccurrenceOrder(assoc_buffer, Processed)
  /\ SectionEmitted =>
       /\ InFirstOccurrenceOrder(assoc_buffer, tags)
       /\ frag = SectionHead(sections[sec_idx - 1], headings_level) \o <<"\n">>
                   \o GroupsText(assoc_buffer)

\* a section was emitted whose tags are throws, param, exception in this
\* order: Exceptions (two entries) comes before Parameters
C1_Witness ==
  /\ SectionEmitted
  /\ Len(tags) = 3 /\ tags[1].key = "throws" /\ tags[2].key = "param"
  /\ tags[3].key = "exception"
  /\ Len(assoc_buffer) = 2
  /\ assoc_buffer[1].name = <<"Exceptions">> /\ Len(assoc_buffer[1].entries) = 2
  /\ assoc_buffer[2].name = <<"Parameters">>

\* value = t, white space, d: a first token t without white space and a
\* remainder d
SplitsAs(value, t, d) ==
  LET n == Len(value) - Len(t) - Len(d)
  IN  /\ n >= 1
      /\ t # <<>> /\ \A i \in 1..Len(t) : t[i] \notin WS
      /\ d # <<>> /\ d[1] \notin WS
      /\ value = t \o SubSeq(value, Len(t) + 1, Len(t) + n) \o d
      /\ \A i \in (Len(t) + 1)..(Len(t) + n) : value[i] \in WS

TypedGroup(key) == IF key = "param" THEN <<"Parameters">> ELSE <<"Exceptions">>

\* the tag process_tags was applied to last
LastTag == tags[tag_idx - 1]

\* C2: after process_tags on a param, exception or throws tag whose value is
\* a first token t, white space and a remainder d, the last entry of
\* Parameters (param) or Exceptions (exception, throws) is `t` - d.
C2_TypedEntry ==
  (pc = "tags" /\ tag_idx > 1 /\ LastTag.key \in {"param", "exception", "throws"}) =>
    \A a \in 1..Len(LastTag.value), b \in 1..Len(LastTag.value) :
      (a < b /\ SplitsAs(LastTag.value, Take(LastTag.value, a), Drop(LastTag.value, b - 1))) =>
        LET i == BufferIndex(assoc_buffer, TypedGroup(LastTag.key))
        IN  /\ i # 0
            /\ assoc_buffer[i].entries[Len(assoc_buffer[i].entries)]
                 = TextEntry(<<Backtick>> \o Take(LastTag.value, a)
                               \o <<Backtick, " ", EmDash, " ">>
                               \o Drop(LastTag.value, b - 1))

\* an exception tag whose description was wrapped onto a second line and has
\* two words has been processed
C2_Witness ==
  /\ pc = "tags" /\ tag_idx > 1 /\ LastTag.key = "exception"
  /\ SplitsAs(LastTag.value, <<"x">>, <<"d", " ", "d">>)
  /\ Len(LastTag.value) > 5

\* the bold label of a group, with no colon, no value and no sub-list
BareLabel(name) == <<"\n", " ", "*", " ", "*", "*">> \o name \o <<"*", "*">>

MarkerNames == {<<Title(k)>> : k \in MarkerKeys}

\* C3: whenever the groups of a section are emitted, the group of a marker
\* tag (constructor, deprecated, private) renders as the bold label with no
\* colon, no value and no sub-list, whatever followed the tag and however
\* often the tag occurred.
C3_MarkerRendersBare ==
  SectionEmitted =>
    \A i \in 1..Len(assoc_buffer) :
      assoc_buffer[i].name \in MarkerNames =>
        FromTagGroup(assoc_buffer[i].name, assoc_buffer[i].entries)
          = BareLabel(assoc_buffer[i].name)

\* the tags with their keys in lower case
LowerKeys(tgs) == [k \in 1..Len(tgs) |-> [tgs[k] EXCEPT !.key = Lower(@)]]

\* C4 as stated: a key that equals a literal of the policy table up to letter
\* case is placed like the lower-case literal.
C4_CaseInsensitive ==
  pc = "tags" => assoc_buffer = ProcessAll(LowerKeys(Processed), <<>>)

\* the tags whose key is a literal of the policy table, letter for letter
ExactTags(tgs) == SelectSeq(tgs, LAMBDA t : t.key \in PolicyKeys)

RECURSIVE EntryCount(_)
EntryCount(buffer) ==
  IF buffer = <<>> THEN 0 ELSE Len(Head(buffer).entries) + EntryCount(Tail(buffer))

\* C4 as amended: the key is compared with the literals letter for letter; a
\* key that differs from a literal in letter case is dropped like any key
\* that is not in the table, and only the tags with the exact literals are
\* placed, each in the group of its literal.
C4_CaseSensitive ==
  pc = "tags" =>
    /\ assoc_buffer = ProcessAll(ExactTags(Processed), <<>>)
    /\ EntryCount(assoc_buffer) = Len(ExactTags(Processed))
    /\ \A k \in 1..Len(Processed) :
         (Processed[k].key \notin PolicyKeys /\ Lower(Processed[k].key) \in PolicyKeys) =>
           ProcessTags(Processed[k], assoc_buffer) = assoc_buffer

\* a tag Param has been processed after a tag param: the buffer holds the
\* one entry of param
C4_Witness ==
  /\ pc = "tags" /\ tag_idx = 3
  /\ tags[1].key = "param" /\ tags[2].key = "Param"
  /\ EntryCount(assoc_buffer) = 1

\* C5: no section _get_sections returns has a declaration that starts with
\* import, after the primary scan and after the fallback scan.
C5_NoImportSection ==
  \A i \in 1..Len(sections) : ~StartsWithImport(sections[i].line)

\* the comment blocks of a text from position p on, left to right and not
\* overlapping: the positions <<opener, closer>> of each
RECURSIVE BlocksFrom(_, _)
BlocksFrom(text, p) ==
  IF CommentOpen(text, p) = 0 THEN <<>>
  ELSE <<<<CommentOpen(text, p), CommentClose(text, CommentOpen(text, p))>>>>
         \o BlocksFrom(text, CommentClose(text, CommentOpen(text, p)) + 1)

Blocks(text) == BlocksFrom(text, 1)

BlockBody(text, b) == SubSeq(text, b[1] + 1, b[2] - 1)

\* the first token after the block and the white space that follows it
AfterBlock(text, b) == FirstNotIn(text, b[2] + 1, WS)

\* a block with a body that is not blank, immediately followed by a
\* declaration that is not an import: after optional white space comes a
\* word other than import
DocumentsDeclaration(text, b) ==
  /\ Strip(BlockBody(text, b)) # <<>>
  /\ AfterBlock(text, b) <= Len(text)
  /\ text[AfterBlock(text, b)] \in Words \ {"import"}

\* a section made from block b: its comment is the body of b (as it is, or
\* with the synthesized prefix) and its declaration starts where the text
\* after b starts
SectionOfBlock(section, text, b) ==
  /\ section.doc \in {BlockBody(text, b), NormalizeDoc(BlockBody(text, b))}
  /\ section.line[1] = text[AfterBlock(text, b)]

\* C6: _get_sections returns a section for every comment block that is
\* immediately followed by a declaration that is not an import, in the order
\* of the blocks: none is lost to the declaration candidate of an earlier
\* match.
C6_EveryDeclaredBlock ==
  pc = "extracted" =>
    \A n \in 1..Len(Blocks(code)) :
      DocumentsDeclaration(code, Blocks(code)[n]) =>
        \E i \in 1..Len(sections) : SectionOfBlock(sections[i], code, Blocks(code)[n])

\* C7: every section the primary scan appends comes from a match whose
\* comment body and whose declaration candidate are both not empty after
\* trimming.
C7_NoBlankHalf ==
  [][(PrimaryStep /\ Len(sections') > Len(sections)) =>
       /\ Strip(PrimaryMatch(code, pos).g1) # <<>>
       /\ Strip(PrimaryMatch(code, pos).g2) # <<>>]_vars

\* C8: the fallback scan runs only when the primary scan produced no
\* section over the whole text; when the primary scan produced a section,
\* _get_sections returns exactly the sections of the primary scan.
C8_WholeDocumentFallback ==
  /\ pc = "fallback" => primary_sections = <<>>
  /\ (pc = "extracted" /\ primary_sections # <<>>) => sections = primary_sections
  /\ (pc = "extracted" /\ primary_sections = <<>>) =>
       \A i \in 1..Len(sections) :
         \E n \in 1..Len(Blocks(code)) : sections[i].doc = BlockBody(code, Blocks(code)[n])

\* _get_sections has returned the sections of the primary scan although the
\* text holds a comment block the primary scan skipped (it is followed by an
\* import) and the fallback scan would have added
C8_Witness ==
  /\ pc = "extracted" /\ primary_sections # <<>>
  /\ \E n \in 1..Len(Blocks(code)) :
       /\ BlockBody(code, Blocks(code)[n]) # <<>>
       /\ AfterBlock(code, Blocks(code)[n]) <= Len(code)
       /\ code[AfterBlock(code, Blocks(code)[n])] = "import"
       /\ \A i \in 1..Len(sections) : ~SectionOfBlock(sections[i], code, Blocks(code)[n])
  /\ \A i \in 1..Len(sections) : sections[i].line[1] \in Words \ {"import"}

\* a tag block whose key is in the policy table (in any letter case), or
\* that holds no tag at all
KnownBlock(block) == ~TagMatches(block) \/ Lower(TagOf(block).key) \in PolicyKeys

\* the section with the tag blocks of unrecognized keys removed from its
\* comment
WithoutUnrecognized(section) ==
  LET parts == SplitDoc(section.doc)
      kept  == SelectSeq(Tail(parts), KnownBlock)
  IN  [section EXCEPT
         !.doc = parts[1] \o Flatten([i \in 1..Len(kept) |-> <<"*", " ">> \o kept[i]])]

\* the fragment _from_section returned last
LastFragment == out[sec_idx]

\* C9: process_tags leaves the buffer unchanged for a tag whose key is not
\* in the policy table, and the fragment of a section is the fragment of the
\* same section without its unrecognized tags, also when every tag of the
\* section is unrecognized.
C9_UnrecognizedDropped ==
  /\ (pc = "tags" /\ tag_idx > 1 /\ Lower(LastTag.key) \notin PolicyKeys) =>
       assoc_buffer = ProcessAll(SubSeq(tags, 1, tag_idx - 2), <<>>)
  /\ (pc = "section" /\ sec_idx > 1) =>
       LastFragment = FromSection(WithoutUnrecognized(sections[sec_idx - 1]), headings_level)

\* the declaration with a trailing terminator stripped and white space
\* collapsed
Cleaned(line) == GetFieldDeclaration(line)

\* C10: the fragment of a section is empty when its declaration is empty
\* after cleaning; otherwise it begins (after the blank line that separates
\* it from what precedes) with a sub-heading of exactly N+1 "#" holding the
\* cleaned declaration in inline code; the document is the Documentation
\* heading of N "#" followed by the fragments in extraction order.
C10_Fragments ==
  /\ (pc \in {"section", "done"}) =>
       /\ Len(out) = sec_idx
       /\ out[1] = Repeat("#", headings_level) \o <<" ", "Documentation">>
       /\ \A i \in 1..(sec_idx - 1) :
            /\ out[i + 1] = FromSection(sections[i], headings_level)
            /\ IF Cleaned(sections[i].line) = <<>> THEN out[i + 1] = <<>>
               ELSE StartsWith(out[i + 1],
                               <<"\n", "\n">> \o Repeat("#", headings_level + 1)
                                 \o <<" ", Backtick>> \o Cleaned(sections[i].line)
                                 \o <<Backtick>>)
  /\ pc = "done" =>
       result = Repeat("#", headings_level) \o <<" ", "Documentation">>
                  \o Flatten([i \in 1..Len(sections) |-> out[i + 1]]) \o <<"\n">>

\* a document of two sections is finished: the first has a declaration that
\* is empty after cleaning, the second has not
C10_Witness ==
  /\ pc = "done" /\ Len(sections) = 2
  /\ Cleaned(sections[1].line) = <<>> /\ out[2] = <<>>
  /\ Cleaned(sections[2].line) # <<>> /\ out[3] # <<>>
  /\ headings_level = 6

\* every group of `earlier` is at the same place in `later`, under the same
\* name, and its entries are the first entries of that group in `later`
EarlierKept(earlier, later) ==
  /\ Len(earlier) <= Len(later)
  /\ \A i \in 1..Len(earlier) :
       /\ later[i].name = earlier[i].name
       /\ Len(earlier[i].entries) <= Len(later[i].entries)
       /\ SubSeq(later[i].entries, 1, Len(earlier[i].entries)) = earlier[i].entries

\* the number of tags of tgs whose key is in the policy table
PolicyTagCount(tgs) == Cardinality({k \in 1..Len(tgs) : tgs[k].key \in PolicyKeys})

\* the entries a buffer holds
EntriesIn(buffer) ==
  UNION {{buffer[i].entries[j] : j \in 1..Len(buffer[i].entries)} : i \in 1..Len(buffer)}

\* C11: the buffer is empty when the loop over the tags of a section starts;
\* after process_tags on any prefix of the tags of the section, every group
\* of the buffer has at least one entry, the entries of all groups are as
\* many as the processed tags whose key is in the policy table, and the
\* groups and entries the buffer held after every shorter prefix are still
\* there, unchanged; the buffer and the fragment of a section hold only
\* entries of the tags of that section.
C11_BufferPerSection ==
  /\ (pc = "tags" /\ tag_idx = 1) => assoc_buffer = <<>>
  /\ pc = "tags" =>
       /\ tags = SectionTags(sections[sec_idx])
       /\ \A i \in 1..Len(assoc_buffer) : assoc_buffer[i].entries # <<>>
       /\ EntryCount(assoc_buffer) = PolicyTagCount(Processed)
       /\ \A k \in 0..(tag_idx - 1) :
            EarlierKept(ProcessAll(SubSeq(tags, 1, k), <<>>), assoc_buffer)
       /\ EntriesIn(assoc_buffer)
            \subseteq {EntryOf(tags[k]) : k \in {n \in 1..Len(tags) : Recognized(tags[n])}}
  /\ SectionEmitted =>
       /\ tags = SectionTags(sections[sec_idx - 1])
       /\ EntryCount(assoc_buffer) = PolicyTagCount(tags)
       /\ EntriesIn(assoc_buffer)
            \subseteq {EntryOf(tags[k]) : k \in {n \in 1..Len(tags) : Recognized(tags[n])}}
       /\ LastFragment = SectionHead(sections[sec_idx - 1], headings_level) \o <<"\n">>
                           \o GroupsText(assoc_buffer)

\* the second section of a document is in its loop over the tags with one
\* tag processed and one entry in the buffer, after a first section whose
\* fragment holds the one entry of its own buffer
C11_Witness ==
  /\ pc = "tags" /\ sec_idx = 2 /\ tag_idx = 2
  /\ PolicyTagCount(SectionTags(sections[1])) = 1
  /\ out[2] = FromSection(sections[1], headings_level)
  /\ out[2] # <<>>
  /\ PolicyTagCount(Processed) = 1
  /\ EntryCount(assoc_buffer) = 1

=============================================================================
